---- MODULE Spec2Model ----
(***************************************************************************)
(* Model of sketch.ino: the fill-validation logic of the feeder firmware.  *)
(*                                                                         *)
(* The control loop (loop(), sketch.ino:286-304) runs, in every iteration, *)
(* an optional periodic fetchDeviceInfo(), an optional startFillProcess()  *)
(* (button low) and an optional endFillProcess() (button low).  Every      *)
(* sequence of these three handlers is therefore an execution of the loop  *)
(* and each handler is one action of the model.  What a handler did (its   *)
(* deltas, its requests and their responses) is recorded in observation    *)
(* variables until control is back in loop(), action nextIteration.        *)
(*                                                                         *)
(* checkAndDispenseFood and the functions under it are defined in the      *)
(* sketch but loop() never calls them.  Spec is the firmware as it runs;   *)
(* SpecDispense drives checkAndDispenseFood with every pair of arguments   *)
(* and every tray reading, for the statements about the dispense logic.    *)
(*                                                                         *)
(* Numbers: the firmware uses float.  Weights and server quantities are    *)
(* integers here.  Water volumes computed by measureWaterLevel are kept as *)
(* numerators over 2 (names ending in 2), so that the division by the      *)
(* container height is exact for the echo distances the model draws.       *)
(***************************************************************************)
EXTENDS Integers, Sequences, FiniteSets

\* ---------------------------------------------------------------- bounds
MaxQty == 2        \* largest quantity / limit a server response carries
MaxWeight == 1     \* largest reading of the bulk food scale
MaxTray == 2       \* largest reading of the tray food scale

\* ------------------------------------------------------ program constants
TOTAL_WATER_CONTAINER_HEIGHT == 200
WATER_CONTAINER_OFFSET == 100
SERVO_OPEN == 180      \* foodDispenser.write(180)
SERVO_CLOSED == 0      \* foodDispenser.write(0)

\* ------------------------------------------------------------ input sets
Quantities == 0..MaxQty
Weights == 0..MaxWeight
TrayWeights == 0..MaxTray
\* pulseIn(...) / 58.0 in cm: 0 is a pulseIn timeout, 100 a full container, 200 a
\* half full one, 400 a level below the sensor range
EchoCm == {0, 100, 200, 400}
DeviceIds == {"dev"}
HttpCodes == {200, 404}

\* what http.POST + getString + deserializeJson can produce
TransportError == [code |-> -1, parsed |-> FALSE, food_quantity |-> 0, water_quantity |-> 0]
MalformedBody == [code |-> 200, parsed |-> FALSE, food_quantity |-> 0, water_quantity |-> 0]
PostResponses ==
  {TransportError, MalformedBody} \cup
  [code : HttpCodes, parsed : {TRUE}, food_quantity : Quantities, water_quantity : Quantities]

\* what WiFi.status + http.GET + getString + deserializeJson can produce
NotConnected ==
  [wifi |-> FALSE, code |-> -1, parsed |-> FALSE, id |-> "", food_quantity |-> 0,
   water_quantity |-> 0, food_limit |-> 0, water_limit |-> 0]
GetTransportError == [NotConnected EXCEPT !.wifi = TRUE]
GetMalformedBody == [NotConnected EXCEPT !.wifi = TRUE, !.code = 200]
GetResponses ==
  {NotConnected, GetTransportError, GetMalformedBody} \cup
  [wifi : {TRUE}, code : HttpCodes, parsed : {TRUE}, id : DeviceIds,
   food_quantity : Quantities, water_quantity : Quantities,
   food_limit : Quantities, water_limit : Quantities]

\* ----------------------------------------------------------------- state
VARIABLES
  deviceId, foodQuantity, waterQuantity, foodLimit, waterLimit,
  isFillingProcess, initialTotalFood, initialTotalWater2, isDispensing,
  lastOp,       \* handler that has just run, "idle" once control is back in loop()
  fetched,      \* connectivity, status and parse result of the last fetchDeviceInfo
  outcome,      \* result of the last endFillProcess
  added,        \* deltas validateFillQuantity computed in the last endFillProcess
  sent,         \* makePostRequest calls of the last endFillProcess, in order
  sessionOpen,  \* a start-fill trigger has not yet been followed by an end-fill trigger
  foodServo,    \* angle last written to foodDispenser, -1 while none was written
  call,         \* what the last checkAndDispenseFood call got, read and did
  task          \* amount and tray reading of the last startFoodDispensing call

vars == <<deviceId, foodQuantity, waterQuantity, foodLimit, waterLimit,
          isFillingProcess, initialTotalFood, initialTotalWater2, isDispensing,
          lastOp, fetched, outcome, added, sent, sessionOpen,
          foodServo, call, task>>

dispenseVars == <<foodServo, call, task>>

DeviceState == <<deviceId, foodQuantity, waterQuantity, foodLimit, waterLimit>>

NoDelta == [addedFood |-> 0, addedWater2 |-> 0]
NoFetch == [wifi |-> FALSE, code |-> -1, parsed |-> FALSE]
NoCall ==
  [previousFoodQuantity |-> 0, actualQuanitty |-> 0, wasDispensing |-> FALSE,
   started |-> FALSE, monitored |-> FALSE, stopped |-> FALSE, writes |-> <<>>,
   currentWeight |-> 0, secondReading |-> 0]
NoTask == [targetAmount |-> 0, baselineWeight |-> 0]

Init ==
  /\ deviceId = ""
  /\ foodQuantity = 0
  /\ waterQuantity = 0
  /\ foodLimit = 0
  /\ waterLimit = 0
  /\ isFillingProcess = FALSE
  /\ initialTotalFood = 0
  /\ initialTotalWater2 = 0
  /\ isDispensing = FALSE
  /\ lastOp = "idle"
  /\ fetched = NoFetch
  /\ outcome = "None"
  /\ added = NoDelta
  /\ sent = <<>>
  /\ sessionOpen = FALSE
  /\ foodServo = -1
  /\ call = NoCall
  /\ task = NoTask

\* -------------------------------------------------------- pure functions

\* measureWaterLevel: twice the returned volume
measureWaterLevel2(echo, height, limit) ==
  LET distance == echo - WATER_CONTAINER_OFFSET
      waterHeight == height - distance
      waterVolume2 == (waterHeight * limit * 2) \div height
  IN IF waterVolume2 > 0 THEN waterVolume2 ELSE 0

\* mutant: the water limit is checked before the food limit
validateFillQuantity_WaterFirst(currentTotalFood, echo) ==
  LET currentTotalWater2 == measureWaterLevel2(echo, TOTAL_WATER_CONTAINER_HEIGHT, waterLimit)
      addedFood == currentTotalFood - initialTotalFood
      addedWater2 == currentTotalWater2 - initialTotalWater2
  IN IF addedWater2 + 2 * waterQuantity > 2 * waterLimit
       THEN [addedFood |-> addedFood, addedWater2 |-> addedWater2, valid |-> FALSE,
             lcd |-> "Water Overflow!"]
     ELSE IF addedFood + foodQuantity > foodLimit
       THEN [addedFood |-> addedFood, addedWater2 |-> addedWater2, valid |-> FALSE,
             lcd |-> "Food Overflow!"]
     ELSE [addedFood |-> addedFood, addedWater2 |-> addedWater2, valid |-> TRUE,
           lcd |-> ""]

\* mutant: a negative delta is clamped to zero before the limit checks
validateFillQuantity_Clamped(currentTotalFood, echo) ==
  LET currentTotalWater2 == measureWaterLevel2(echo, TOTAL_WATER_CONTAINER_HEIGHT, waterLimit)
      addedFood == currentTotalFood - initialTotalFood
      addedWater2 == currentTotalWater2 - initialTotalWater2
      f == IF addedFood > 0 THEN addedFood ELSE 0
      w2 == IF addedWater2 > 0 THEN addedWater2 ELSE 0
  IN IF f + foodQuantity > foodLimit
       THEN [addedFood |-> addedFood, addedWater2 |-> addedWater2, valid |-> FALSE,
             lcd |-> "Food Overflow!"]
     ELSE IF w2 + 2 * waterQuantity > 2 * waterLimit
       THEN [addedFood |-> addedFood, addedWater2 |-> addedWater2, valid |-> FALSE,
             lcd |-> "Water Overflow!"]
     ELSE [addedFood |-> addedFood, addedWater2 |-> addedWater2, valid |-> TRUE,
           lcd |-> ""]

\* mutant: the water limit is not checked
validateFillQuantity_NoWaterCheck(currentTotalFood, echo) ==
  LET currentTotalWater2 == measureWaterLevel2(echo, TOTAL_WATER_CONTAINER_HEIGHT, waterLimit)
      addedFood == currentTotalFood - initialTotalFood
      addedWater2 == currentTotalWater2 - initialTotalWater2
  IN IF addedFood + foodQuantity > foodLimit
       THEN [addedFood |-> addedFood, addedWater2 |-> addedWater2, valid |-> FALSE,
             lcd |-> "Food Overflow!"]
     ELSE [addedFood |-> addedFood, addedWater2 |-> addedWater2, valid |-> TRUE,
           lcd |-> ""]

\* validateFillQuantity, given the two sensor readings it takes
validateFillQuantity(currentTotalFood, echo) ==
  LET currentTotalWater2 == measureWaterLevel2(echo, TOTAL_WATER_CONTAINER_HEIGHT, waterLimit)
      addedFood == currentTotalFood - initialTotalFood
      addedWater2 == currentTotalWater2 - initialTotalWater2
  IN IF addedFood + foodQuantity > foodLimit
       THEN [addedFood |-> addedFood, addedWater2 |-> addedWater2, valid |-> FALSE,
             lcd |-> "Food Overflow!"]
     ELSE IF addedWater2 + 2 * waterQuantity > 2 * waterLimit
       THEN [addedFood |-> addedFood, addedWater2 |-> addedWater2, valid |-> FALSE,
             lcd |-> "Water Overflow!"]
     ELSE [addedFood |-> addedFood, addedWater2 |-> addedWater2, valid |-> TRUE,
           lcd |-> ""]

\* mutant: the quantity is added locally instead of adopting the response
makePostRequest_LocalSum(q, type, quantity, r) ==
  IF r.code > 0 /\ r.parsed
    THEN IF type = "food"
           THEN [q EXCEPT !.foodQuantity = q.foodQuantity + quantity]
           ELSE [q EXCEPT !.waterQuantity = q.waterQuantity + quantity]
    ELSE q

\* mutant: the parse error is not tested, an empty document reads as zeros
makePostRequest_NoParseCheck(q, type, quantity, r) ==
  IF r.code > 0
    THEN [q EXCEPT !.foodQuantity = r.food_quantity, !.waterQuantity = r.water_quantity]
    ELSE q

\* mutant: the five assignments of fetchDeviceInfo are copied, the keys the
\* model's response does not carry read as zero
makePostRequest_OverwritesLimits(q, type, quantity, r) ==
  IF r.code > 0 /\ r.parsed
    THEN [q EXCEPT !.foodQuantity = r.food_quantity, !.waterQuantity = r.water_quantity,
                   !.foodLimit = 0, !.waterLimit = 0]
    ELSE q

\* makePostRequest(type, quantity, "add"): the cached DeviceState after the
\* response r, starting from the cached DeviceState q
makePostRequest(q, type, quantity, r) ==
  IF r.code > 0 /\ r.parsed
    THEN [q EXCEPT !.foodQuantity = r.food_quantity, !.waterQuantity = r.water_quantity]
    ELSE q

\* mutant: the early return on an invalid result is missing
requests_NoValidCheck(v) ==
  (IF v.addedFood > 0
     THEN <<[type |-> "food", quantity |-> v.addedFood, action |-> "add"]>> ELSE <<>>)
  \o
  (IF v.addedWater2 > 0
     THEN <<[type |-> "water", quantity |-> v.addedWater2, action |-> "add"]>> ELSE <<>>)

\* mutant: a zero delta is reported too
requests_NonStrict(v) ==
  IF ~v.valid THEN <<>>
  ELSE (IF v.addedFood >= 0
          THEN <<[type |-> "food", quantity |-> v.addedFood, action |-> "add"]>> ELSE <<>>)
       \o
       (IF v.addedWater2 >= 0
          THEN <<[type |-> "water", quantity |-> v.addedWater2, action |-> "add"]>> ELSE <<>>)

\* the makePostRequest calls endFillProcess makes for validation result v, in
\* order (the water quantity is the numerator over 2)
requests(v) ==
  IF ~v.valid THEN <<>>
  ELSE (IF v.addedFood > 0
          THEN <<[type |-> "food", quantity |-> v.addedFood, action |-> "add"]>> ELSE <<>>)
       \o
       (IF v.addedWater2 > 0
          THEN <<[type |-> "water", quantity |-> v.addedWater2, action |-> "add"]>> ELSE <<>>)

\* mutant: the deserialization error is not tested
fetchSucceeds_NoParseCheck(r) == r.wifi /\ r.code > 0

\* fetchDeviceInfo overwrites the cache and returns true
fetchSucceeds(r) == r.wifi /\ r.code > 0 /\ r.parsed

\* mutant: a difference of zero starts a task too
startsDispensing_NonStrict(difference, dispensing) == difference >= 0 /\ ~dispensing

\* checkAndDispenseFood calls startFoodDispensing
startsDispensing(difference, dispensing) == difference > 0 /\ ~dispensing

\* monitorFoodDispensing calls stopFoodDispensing; currentWeight and
\* secondReading are its two trayFoodScale.get_units() readings
monitorStops(targetAmount, currentWeight, secondReading) ==
  LET initialWeight == secondReading - targetAmount
      dispensedAmount == currentWeight - initialWeight
  IN dispensedAmount >= targetAmount

\* --------------------------------------------------------------- actions

fetchDeviceInfo ==
  \E r \in GetResponses :
    /\ lastOp = "idle"
    /\ IF fetchSucceeds(r)
         THEN /\ deviceId' = r.id
              /\ foodQuantity' = r.food_quantity
              /\ waterQuantity' = r.water_quantity
              /\ foodLimit' = r.food_limit
              /\ waterLimit' = r.water_limit
         ELSE UNCHANGED <<deviceId, foodQuantity, waterQuantity, foodLimit, waterLimit>>
    /\ lastOp' = "fetch"
    /\ fetched' = [wifi |-> r.wifi, code |-> r.code, parsed |-> r.parsed]
    /\ outcome' = "None"
    /\ added' = NoDelta
    /\ sent' = <<>>
    /\ UNCHANGED <<isFillingProcess, initialTotalFood, initialTotalWater2, isDispensing,
                   sessionOpen>>
    /\ UNCHANGED dispenseVars

startFillProcess ==
  \E w \in Weights, e \in EchoCm :
    /\ lastOp = "idle"
    /\ isFillingProcess' = TRUE
    /\ initialTotalFood' = w
    /\ initialTotalWater2' = measureWaterLevel2(e, TOTAL_WATER_CONTAINER_HEIGHT, waterLimit)
    /\ lastOp' = "start"
    /\ outcome' = "None"
    /\ added' = NoDelta
    /\ sent' = <<>>
    /\ sessionOpen' = TRUE
    /\ UNCHANGED <<deviceId, foodQuantity, waterQuantity, foodLimit, waterLimit,
                   isDispensing, fetched>>
    /\ UNCHANGED dispenseVars

endFillProcess ==
  \E w \in Weights, e \in EchoCm :
    LET v == validateFillQuantity(w, e)
        reqs == requests(v)
        q0 == [deviceId |-> deviceId, foodQuantity |-> foodQuantity,
               waterQuantity |-> waterQuantity, foodLimit |-> foodLimit,
               waterLimit |-> waterLimit]
    IN \E rs \in [1..Len(reqs) -> PostResponses] :
         LET q1 == IF Len(reqs) >= 1
                     THEN makePostRequest(q0, reqs[1].type, reqs[1].quantity, rs[1]) ELSE q0
             q2 == IF Len(reqs) >= 2
                     THEN makePostRequest(q1, reqs[2].type, reqs[2].quantity, rs[2]) ELSE q1
         IN /\ lastOp = "idle"
            /\ lastOp' = "end"
            /\ added' = [addedFood |-> v.addedFood, addedWater2 |-> v.addedWater2]
            /\ outcome' = (IF v.valid THEN "Accepted"
                           ELSE IF v.lcd = "Food Overflow!" THEN "FoodOverflow"
                           ELSE "WaterOverflow")
            /\ sent' = [i \in 1..Len(reqs) |->
                          [type |-> reqs[i].type, quantity |-> reqs[i].quantity,
                           action |-> reqs[i].action, resp |-> rs[i]]]
            /\ deviceId' = q2.deviceId
            /\ foodQuantity' = q2.foodQuantity
            /\ waterQuantity' = q2.waterQuantity
            /\ foodLimit' = q2.foodLimit
            /\ waterLimit' = q2.waterLimit
            /\ sessionOpen' = FALSE
            /\ UNCHANGED <<isFillingProcess, initialTotalFood, initialTotalWater2,
                           isDispensing, fetched>>
            /\ UNCHANGED dispenseVars

\* the handler has returned and loop() runs again
nextIteration ==
  /\ lastOp # "idle"
  /\ lastOp' = "idle"
  /\ fetched' = NoFetch
  /\ outcome' = "None"
  /\ added' = NoDelta
  /\ sent' = <<>>
  /\ call' = NoCall
  /\ UNCHANGED <<deviceId, foodQuantity, waterQuantity, foodLimit, waterLimit,
                 isFillingProcess, initialTotalFood, initialTotalWater2, isDispensing,
                 sessionOpen, foodServo, task>>

\* checkAndDispenseFood(previousFoodQuantity, actualQuanitty), with
\* startFoodDispensing, monitorFoodDispensing and stopFoodDispensing under it
checkAndDispenseFood ==
  \E previousFoodQuantity \in Quantities, actualQuanitty \in Quantities :
    LET difference == previousFoodQuantity - actualQuanitty
        starts == startsDispensing(difference, isDispensing)
        monitored == isDispensing \/ starts
    IN \E initialWeight \in (IF starts THEN TrayWeights ELSE {0}),
          currentWeight \in (IF monitored THEN TrayWeights ELSE {0}),
          secondReading \in (IF monitored THEN TrayWeights ELSE {0}) :
         LET stops == monitored /\ monitorStops(difference, currentWeight, secondReading)
         IN /\ lastOp = "idle"
            /\ lastOp' = "dispense"
            /\ isDispensing' = (monitored /\ ~stops)
            /\ foodServo' = (IF stops THEN SERVO_CLOSED
                             ELSE IF starts THEN SERVO_OPEN ELSE foodServo)
            /\ task' = (IF starts THEN [targetAmount |-> difference,
                                        baselineWeight |-> initialWeight]
                                  ELSE task)
            /\ call' = [previousFoodQuantity |-> previousFoodQuantity,
                        actualQuanitty |-> actualQuanitty,
                        wasDispensing |-> isDispensing,
                        started |-> starts, monitored |-> monitored, stopped |-> stops,
                        writes |-> (IF starts THEN <<SERVO_OPEN>> ELSE <<>>) \o
                                   (IF stops THEN <<SERVO_CLOSED>> ELSE <<>>),
                        currentWeight |-> currentWeight,
                        secondReading |-> secondReading]
            /\ UNCHANGED <<deviceId, foodQuantity, waterQuantity, foodLimit, waterLimit,
                           isFillingProcess, initialTotalFood, initialTotalWater2,
                           fetched, outcome, added, sent, sessionOpen>>

Next == fetchDeviceInfo \/ startFillProcess \/ endFillProcess \/ nextIteration

Spec == Init /\ [][Next]_vars

NextDispense == checkAndDispenseFood \/ nextIteration

SpecDispense == Init /\ [][NextDispense]_vars

\* ---------------------------------------------------------------- claims

Rejected(o) == o \in {"FoodOverflow", "WaterOverflow"}
Kinds(s) == {s[i].type : i \in DOMAIN s}
\* the response was received and parsed, so makePostRequest adopted it
Adopted(r) == r.code > 0 /\ r.parsed

\* C1: ending a fill is Accepted iff addedFood + foodQuantity <= foodLimit and
\* addedWater + waterQuantity <= waterLimit (on the values cached before the
\* trigger); otherwise it is FoodOverflow when the food constraint is
\* violated (also when both are) and WaterOverflow when only water is.
C1_AcceptedIffWithinLimits ==
  [][lastOp' = "end" =>
       LET foodOk == added'.addedFood + foodQuantity <= foodLimit
           waterOk == added'.addedWater2 + 2 * waterQuantity <= 2 * waterLimit
       IN /\ outcome' \in {"Accepted", "FoodOverflow", "WaterOverflow"}
          /\ (outcome' = "Accepted" <=> (foodOk /\ waterOk))
          /\ (outcome' = "FoodOverflow" <=> ~foodOk)
          /\ (outcome' = "WaterOverflow" <=> (foodOk /\ ~waterOk))]_vars

\* both constraints violated, FoodOverflow reported
C1_Witness ==
  /\ lastOp = "end"
  /\ outcome = "FoodOverflow"
  /\ added.addedFood + foodQuantity > foodLimit
  /\ added.addedWater2 + 2 * waterQuantity > 2 * waterLimit

\* C2: a rejected end-fill sends no report request and leaves the cached
\* DeviceState exactly as it was before the trigger.
C2_RejectionLeavesStateUntouched ==
  [][(lastOp' = "end" /\ Rejected(outcome')) =>
       (sent' = <<>> /\ DeviceState' = DeviceState)]_vars

\* water overflow although a positive food delta was measured: nothing sent
C2_Witness ==
  /\ lastOp = "end"
  /\ outcome = "WaterOverflow"
  /\ added.addedFood > 0
  /\ sent = <<>>

\* C3: on acceptance a request (kind, delta, "add") is sent for food iff
\* addedFood > 0 and for water iff addedWater > 0, each at most once, each
\* carrying the computed delta.
C3_ReportIffPositiveDelta ==
  (lastOp = "end" /\ outcome = "Accepted") =>
    /\ ("food" \in Kinds(sent) <=> added.addedFood > 0)
    /\ ("water" \in Kinds(sent) <=> added.addedWater2 > 0)
    /\ Len(sent) = Cardinality(Kinds(sent))
    /\ \A i \in DOMAIN sent :
         /\ sent[i].action = "add"
         /\ sent[i].type \in {"food", "water"}
         /\ sent[i].quantity = (IF sent[i].type = "food" THEN added.addedFood
                                                        ELSE added.addedWater2)

\* accepted with a food delta of zero or less and a positive water delta:
\* only the water request is sent
C3_Witness ==
  /\ lastOp = "end"
  /\ outcome = "Accepted"
  /\ added.addedFood <= 0
  /\ added.addedWater2 > 0
  /\ Len(sent) = 1
  /\ sent[1].type = "water"

\* C4 as stated: with a negative delta the check behaves as
\* 0 + quantity > limit, for every cached quantity and limit, and the
\* negative delta is not reported.
C4_NegativeDeltaCountsAsZero ==
  [][lastOp' = "end" =>
       /\ (added'.addedFood < 0 =>
             /\ (outcome' = "FoodOverflow" <=> foodQuantity > foodLimit)
             /\ "food" \notin Kinds(sent'))
       /\ ((added'.addedWater2 < 0 /\ outcome' # "FoodOverflow") =>
             /\ (outcome' = "WaterOverflow" <=> waterQuantity > waterLimit)
             /\ "water" \notin Kinds(sent'))]_vars

\* C4 as amended: a negative delta enters the check with its signed value
\* (delta + quantity > limit); it never causes a rejection while the cached
\* quantity is within its limit, and it is never reported.
C4_NegativeDeltaIsSigned ==
  [][lastOp' = "end" =>
       /\ (added'.addedFood < 0 =>
             /\ (outcome' = "FoodOverflow"
                   <=> added'.addedFood + foodQuantity > foodLimit)
             /\ (foodQuantity <= foodLimit => outcome' # "FoodOverflow")
             /\ "food" \notin Kinds(sent'))
       /\ ((added'.addedWater2 < 0 /\ outcome' # "FoodOverflow") =>
             /\ (outcome' = "WaterOverflow"
                   <=> added'.addedWater2 + 2 * waterQuantity > 2 * waterLimit)
             /\ (waterQuantity <= waterLimit => outcome' # "WaterOverflow")
             /\ "water" \notin Kinds(sent'))]_vars

\* food was removed while the cached quantity is above its limit: accepted
C4_Witness ==
  /\ lastOp = "end"
  /\ added.addedFood < 0
  /\ outcome = "Accepted"
  /\ sent = <<>>
  /\ foodQuantity > foodLimit

\* C5: after every end-fill the active flag is false.
C5_SessionClearedAfterEnd ==
  lastOp = "end" => ~isFillingProcess

\* C6: an end-fill trigger with no open session (never started, or already
\* ended) sends nothing and leaves DeviceState unchanged.
C6_EndWithoutSessionIsNoOp ==
  [][(lastOp' = "end" /\ ~sessionOpen) =>
       (sent' = <<>> /\ DeviceState' = DeviceState)]_vars

\* C7: startFillProcess never runs while isFillingProcess is already true.
C7_StartOnlyWhenInactive ==
  [][lastOp' = "start" => ~isFillingProcess]_vars

\* C8: when at least one report response of an accepted fill was adopted,
\* the cached foodQuantity and waterQuantity are the values of the last such
\* response, whatever they are.
C8_ServerValueAdopted ==
  [][(lastOp' = "end" /\ \E i \in DOMAIN sent' : Adopted(sent'[i].resp)) =>
       LET last == CHOOSE i \in DOMAIN sent' :
                     /\ Adopted(sent'[i].resp)
                     /\ \A j \in DOMAIN sent' : Adopted(sent'[j].resp) => j <= i
       IN /\ foodQuantity' = sent'[last].resp.food_quantity
          /\ waterQuantity' = sent'[last].resp.water_quantity]_vars

\* a positive food delta was reported and the server answered 0, which no
\* local sum of a quantity >= 0 and a delta > 0 can be
C8_Witness ==
  /\ lastOp = "end"
  /\ Len(sent) = 1
  /\ sent[1].type = "food"
  /\ sent[1].quantity > 0
  /\ sent[1].resp.code = 200 /\ sent[1].resp.parsed
  /\ sent[1].resp.food_quantity = 0
  /\ foodQuantity = 0

C10_FailedFetchKeepsCache ==
  [][(lastOp' = "fetch" /\ (~fetched'.wifi \/ fetched'.code <= 0 \/ ~fetched'.parsed)) =>
       DeviceState' = DeviceState]_vars

\* a body that did not parse arrived after a successful poll, cache retained
C10_Witness ==
  /\ lastOp = "fetch"
  /\ fetched.wifi /\ fetched.code > 0 /\ ~fetched.parsed
  /\ deviceId = "dev"
  /\ foodLimit > 0

\* C11: a response with a non-2xx status, to a fetch or to a report, leaves
\* the cached DeviceState unchanged whatever its body.
C11_NonSuccessStatusKeepsState ==
  [][/\ (lastOp' = "fetch" /\ fetched'.code \notin 200..299) =>
          DeviceState' = DeviceState
     /\ (lastOp' = "end" /\ \A i \in DOMAIN sent' : sent'[i].resp.code \notin 200..299) =>
          DeviceState' = DeviceState]_vars

\* C17: whenever endFillProcess sends a request, both the food check and the
\* water check held on the quantities and limits cached before the handler
\* ran; no response is consulted between or after the two checks.
C17_ValidationOnOneSnapshot ==
  [][(lastOp' = "end" /\ sent' # <<>>) =>
       /\ added'.addedFood + foodQuantity <= foodLimit
       /\ added'.addedWater2 + 2 * waterQuantity <= 2 * waterLimit
       /\ foodLimit' = foodLimit
       /\ waterLimit' = waterLimit]_vars

\* the food response overwrote waterQuantity with a value the water check
\* would have rejected, and the water request went out all the same
C17_Witness ==
  /\ lastOp = "end"
  /\ Len(sent) = 2
  /\ Adopted(sent[1].resp)
  /\ sent[2].quantity + 2 * sent[1].resp.water_quantity > 2 * waterLimit

\* C18: a report request, adopted or not, leaves deviceId, the limits, the
\* fill-session flag and baseline and the dispense flag unchanged.
C18_ReportFrame ==
  [][lastOp' = "end" =>
       UNCHANGED <<deviceId, foodLimit, waterLimit, isFillingProcess,
                   initialTotalFood, initialTotalWater2, isDispensing>>]_vars

\* a report response was adopted while limits, id and session were set
C18_Witness ==
  /\ lastOp = "end"
  /\ \E i \in DOMAIN sent : Adopted(sent[i].resp)
  /\ deviceId = "dev"
  /\ foodLimit > 0
  /\ waterLimit > 0
  /\ isFillingProcess

\* the quantities cached when request i of s goes out, given the quantities
\* fq, wq cached before the handler ran
CachedAtSend(s, i, fq, wq) ==
  IF i = 2 /\ Adopted(s[1].resp)
    THEN [foodQuantity |-> s[1].resp.food_quantity,
          waterQuantity |-> s[1].resp.water_quantity]
    ELSE [foodQuantity |-> fq, waterQuantity |-> wq]

\* C19 as stated: every request satisfies the limit of its kind on the
\* quantities cached at the moment it is sent.
C19_LimitHoldsAtSendTime ==
  [][lastOp' = "end" =>
       \A i \in DOMAIN sent' :
         LET c == CachedAtSend(sent', i, foodQuantity, waterQuantity)
         IN IF sent'[i].type = "food"
              THEN sent'[i].quantity + c.foodQuantity <= foodLimit
              ELSE sent'[i].quantity + 2 * c.waterQuantity <= 2 * waterLimit]_vars

\* C19 as amended: every request satisfies the limit of its kind on the
\* quantities cached when validateFillQuantity ran, before the first request.
C19_LimitHoldsAtValidation ==
  [][lastOp' = "end" =>
       \A i \in DOMAIN sent' :
         IF sent'[i].type = "food"
           THEN sent'[i].quantity + foodQuantity <= foodLimit
           ELSE sent'[i].quantity + 2 * waterQuantity <= 2 * waterLimit]_vars

\* a water request sent after the food response set waterQuantity above the limit
C19_Witness ==
  /\ lastOp = "end"
  /\ Len(sent) = 2
  /\ sent[2].type = "water"
  /\ Adopted(sent[1].resp)
  /\ sent[1].resp.water_quantity > waterLimit

\* C20: while no fetch has succeeded (deviceId empty) the limits and
\* quantities are 0 and no handler has sent a report request.
C20_NoReportBeforeFirstFetch ==
  deviceId = "" =>
    /\ sent = <<>>
    /\ foodLimit = 0 /\ waterLimit = 0
    /\ foodQuantity = 0 /\ waterQuantity = 0

\* food was added and end-fill triggered before any fetch: rejected
C20_Witness ==
  /\ deviceId = ""
  /\ lastOp = "end"
  /\ added.addedFood > 0
  /\ outcome = "FoodOverflow"
  /\ sent = <<>>

\* ------------------------------------------------- claims, dispense logic

Difference(c) == c.previousFoodQuantity - c.actualQuanitty
Opens(c) == \E i \in DOMAIN c.writes : c.writes[i] = SERVO_OPEN

\* C12: whenever monitoring closes the actuator, the tray weight it read is
\* at least targetAmount above the tray weight read when the task started.
C12_ClosedOnlyAfterTarget ==
  (lastOp = "dispense" /\ call.stopped) =>
    call.currentWeight - task.baselineWeight >= task.targetAmount

\* C13: a call starts a task exactly when previous - current > 0 and no task
\* is active; the task is then active with that difference as target and
\* the actuator open; otherwise nothing is started and nothing driven open.
C13_EvaluateStartsTask ==
  lastOp = "dispense" =>
    LET shouldStart == Difference(call) > 0 /\ ~call.wasDispensing
    IN /\ call.started <=> shouldStart
       /\ shouldStart => /\ isDispensing
                         /\ foodServo = SERVO_OPEN
                         /\ task.targetAmount = Difference(call)
       /\ ~shouldStart => ~Opens(call)

\* C14: while the tray readings of a call stay less than targetAmount above
\* the baseline of the task, the task stays active and the actuator open.
C14_NoCloseBeforeTarget ==
  [][(/\ lastOp' = "dispense"
      /\ call'.monitored
      /\ call'.currentWeight - task'.baselineWeight < task'.targetAmount
      /\ call'.secondReading - task'.baselineWeight < task'.targetAmount) =>
       (isDispensing' /\ foodServo' = SERVO_OPEN)]_vars

\* C15: after a poll that fetched a foodQuantity lower than the cached one
\* while no task was active, the task is active and the actuator open.
C15_PollStartsTask ==
  [][(lastOp' = "fetch" /\ foodQuantity' < foodQuantity /\ ~isDispensing) =>
       (isDispensing' /\ foodServo' = SERVO_OPEN)]_vars

\* C16: the actuator is driven open only by a checkAndDispenseFood call that
\* sees previous - current > 0 while no task is active.
C16_OpensOnlyOnNewTrigger ==
  [][(Opens(call') \/ (foodServo' = SERVO_OPEN /\ foodServo # SERVO_OPEN)) =>
       /\ lastOp' = "dispense"
       /\ Difference(call') > 0
       /\ ~isDispensing]_vars

\* a task was started and closed earlier; a later call with a difference of
\* zero or less leaves the actuator closed
C16_Witness ==
  /\ lastOp = "dispense"
  /\ task.targetAmount > 0
  /\ ~call.wasDispensing
  /\ Difference(call) <= 0
  /\ call.writes = <<>>
  /\ foodServo = SERVO_CLOSED
  /\ ~isDispensing

====
